---- MODULE Spec2Model ----
(***************************************************************************)
(* The LXC driver of client/driver (LxcDriver, lxcDriverHandle): Start and *)
(* Open build a handle and spawn its monitor goroutine run(); Kill shuts   *)
(* the container down and closes doneCh; run() polls the init process,     *)
(* publishes one WaitResult on waitCh and, in its deferred function, calls *)
(* cleanupContainer and closes waitCh.                                     *)
(*                                                                         *)
(* The container runtime (go-lxc), the process table and the orchestrator  *)
(* that calls the driver are the environment: every outcome they can       *)
(* produce is a nondeterministic choice.  An unrecovered Go panic ends the *)
(* whole process: it sets crashed, after which nothing runs.               *)
(***************************************************************************)
EXTENDS Integers, Sequences, FiniteSets, TLC

\* Bounds of the model.
MaxStarts == 1         \* times Start brings the container up
MaxKillTimeout == 2    \* the configured config.MaxKillTimeout
MaxVolLen == 3         \* characters in one volume spec
MaxVolumes == 2        \* volume specs in one "volumes" list
MaxNameLen == 3        \* characters in a volume group or volume name
MaxTicks == 1          \* the highest value of a CPU counter
MaxElapse == 1         \* clock units that pass in one stretch of running
MaxCalls == 2          \* Stats calls on the handle

\* Capacity of waitCh: make(chan *dstructs.WaitResult, 1).
WaitChCap == 1

\* Two handle objects: one that Start or Open returned, and a second one
\* that a later Open or Start returns.
Handles == {1, 2}
\* Kill timeouts a task may request: below, at and above the maximum.
TaskTimeouts == 1..(MaxKillTimeout + 1)

VARIABLES
    container,   \* the one LXC container name of the task: state, init pid
    handle,      \* handle[h]: the lxcDriverHandle fields
    mon,         \* mon[h]: the position of goroutine h.run()
    waitCh,      \* waitCh[h]: buffered channel of WaitResult
    doneCh,      \* doneCh[h]: the kill-request channel
    kill,        \* kill[h]: the position and record of the Kill call on h
    destroyLog,  \* the handle methods that have called h.container.Destroy()
    crashed,     \* an unrecovered panic has ended the process
    opened,      \* what Open returned, while it is the latest call made
    prov,        \* one run of Start's provisioning sequence
    vol,         \* one run of validateVolumesConfig
    parse,       \* one call of extractVgName
    stats        \* one handle's CPU accumulators and its Stats calls

vars == <<container, handle, mon, waitCh, doneCh, kill, destroyLog,
          crashed, opened, prov, vol, parse, stats>>

NoHandle == [origin |-> "none", initPid |-> 0, killTimeout |-> 0,
             maxKillTimeout |-> 0]
NoMon == [pc |-> "none", trigger |-> "none", cleaned |-> FALSE]
NewChan == [buf |-> <<>>, closed |-> FALSE, nSent |-> 0, nClosed |-> 0]
\* kill[h] records the latest Kill call on h: whether an earlier call had
\* returned (repeat), what Running() said, how Shutdown and Stop ended and
\* what the call returned; returned says that some call has returned.
IdleKill == [pc |-> "idle", repeat |-> FALSE, running |-> FALSE,
             shut |-> "none", stop |-> "none", ret |-> "none",
             returned |-> FALSE]

\* No provisioning run and no validation run is in progress.
NoProv == [pc |-> "none"]
NoVol == [pc |-> "none"]
\* No call of extractVgName is made, and no Stats call.
NoParse == [pc |-> "none"]
NoStats == [pc |-> "none"]

Init ==
    /\ container = [state |-> "absent", initPid |-> 0, lastPid |-> 0]
    /\ handle = [h \in Handles |-> NoHandle]
    /\ mon = [h \in Handles |-> NoMon]
    /\ waitCh = [h \in Handles |-> NewChan]
    /\ doneCh = [h \in Handles |-> NewChan]
    /\ kill = [h \in Handles |-> IdleKill]
    /\ destroyLog = {}
    /\ crashed = FALSE
    /\ opened = "none"
    /\ prov = NoProv
    /\ vol = NoVol
    /\ parse = NoParse
    /\ stats = NoStats

----------------------------------------------------------------------------
\* Helpers.

Min(a, b) == IF a < b THEN a ELSE b

\* GetKillTimeout(desired, max): the requested timeout clamped to max.
GetKillTimeout(desired, max) == Min(desired, max)

Exists(h) == handle[h].origin # "none"
FreeSlots == {h \in Handles : ~Exists(h)}
\* The slot the next handle object takes.
NewSlot == CHOOSE h \in FreeSlots : \A g \in FreeSlots : h <= g

\* lxc.Containers(path) lists the containers defined at path.
Defined == container.state # "absent"
\* container.Running()
Running == container.state = "running"
\* The init process recorded in handle h is still in the process table.
Alive(h) == /\ handle[h].initPid # 0
            /\ container.state = "running"
            /\ container.initPid = handle[h].initPid

\* The handle literal of startContainer, executeContainer and Open.
NewHandle(origin, initPid, killTimeout) ==
    [origin |-> origin, initPid |-> initPid,
     killTimeout |-> killTimeout, maxKillTimeout |-> MaxKillTimeout]

\* go h.run(): the deferred function is registered, the timer is armed.
SpawnMonitor(h) ==
    mon' = [mon EXCEPT ![h] = [NoMon EXCEPT !.pc = "select"]]

\* h.ID(): the lxcPID that is marshalled to JSON.
ID(h) == [ContainerName |-> "task-alloc", InitPid |-> handle[h].initPid,
          KillTimeout |-> handle[h].killTimeout]

\* The container after a successful Shutdown, Stop or exit of its init.
Stopped(c) == IF c.state = "running"
              THEN [c EXCEPT !.state = "stopped", !.initPid = 0]
              ELSE c

\* Channel operations.  A send blocks while the buffer is full; a close of
\* a closed channel panics (nClosed counts that attempt too).
CanSend(ch) == Len(ch.buf) < WaitChCap
Send(ch, v) == [ch EXCEPT !.buf = Append(@, v), !.nSent = @ + 1]
Close(ch) == [ch EXCEPT !.closed = TRUE, !.nClosed = @ + 1]

----------------------------------------------------------------------------
\* The driver calls of the orchestrator.

\* LxcDriver.Start with a template-mode task that requests kill timeout t.
\* c.Create fails when the name is already defined; a failure after Create
\* runs the cleanup closure (c.Destroy) that startContainer returned; on
\* success the handle is built and its monitor spawned.
Start(t) ==
    /\ ~crashed
    /\ opened' = "none"
    /\ UNCHANGED <<prov, vol, parse, stats>>
    /\ \/ \* c.Create failed: error, noCleanup
          /\ UNCHANGED <<container, handle, mon, destroyLog>>
       \/ \* c.Start (or the configuration) failed: errCleanup = c.Destroy
          /\ ~Defined
          /\ \E destroyed \in BOOLEAN :
                container' = [container EXCEPT
                    !.state = IF destroyed THEN "absent" ELSE "stopped"]
          /\ UNCHANGED <<handle, mon, destroyLog>>
       \/ \* every step succeeded
          /\ ~Defined
          /\ FreeSlots # {}
          /\ container.lastPid < MaxStarts
          /\ container' = [state |-> "running",
                           initPid |-> container.lastPid + 1,
                           lastPid |-> container.lastPid + 1]
          /\ handle' = [handle EXCEPT ![NewSlot] =
                 NewHandle("Start", container.lastPid + 1,
                           GetKillTimeout(t, MaxKillTimeout))]
          /\ SpawnMonitor(NewSlot)
          /\ UNCHANGED destroyLog
    /\ UNCHANGED <<waitCh, doneCh, kill, crashed>>

\* Mutant of Open: the handle is built without looking the container up.
Open_NoLookup(g) ==
    /\ ~crashed
    /\ UNCHANGED <<prov, vol, parse, stats>>
    /\ Exists(g)
    /\ FreeSlots # {}
    /\ handle' = [handle EXCEPT ![NewSlot] =
           NewHandle("Open", container.initPid, ID(g).KillTimeout)]
    /\ SpawnMonitor(NewSlot)
    /\ opened' = "ok"
    /\ UNCHANGED <<container, waitCh, doneCh, kill, destroyLog, crashed>>

\* LxcDriver.Open with the token that handle g's ID() returned.
Open(g) ==
    /\ ~crashed
    /\ UNCHANGED <<prov, vol, parse, stats>>
    /\ Exists(g)
    /\ LET pid == ID(g) IN
       IF Defined
       THEN /\ FreeSlots # {}
            /\ handle' = [handle EXCEPT ![NewSlot] =
                   NewHandle("Open", container.initPid, pid.KillTimeout)]
            /\ SpawnMonitor(NewSlot)
            /\ opened' = "ok"
       ELSE \* "container %v not found": no handle, no monitor
            /\ UNCHANGED <<handle, mon>>
            /\ opened' = "notfound"
    /\ UNCHANGED <<container, waitCh, doneCh, kill, destroyLog, crashed>>

\* LxcDriver.Open with a token that the orchestrator persisted before it
\* restarted: the ID() of a handle of the earlier driver process, whose
\* configured maximum may have been another one, so that the token's
\* KillTimeout t is any timeout a task can ask for.
OpenPersisted(t) ==
    /\ ~crashed
    /\ UNCHANGED <<prov, vol, parse, stats>>
    /\ IF Defined
       THEN /\ FreeSlots # {}
            /\ handle' = [handle EXCEPT ![NewSlot] =
                   NewHandle("Open", container.initPid, t)]
            /\ SpawnMonitor(NewSlot)
            /\ opened' = "ok"
       ELSE /\ UNCHANGED <<handle, mon>>
            /\ opened' = "notfound"
    /\ UNCHANGED <<container, waitCh, doneCh, kill, destroyLog, crashed>>

\* lxcDriverHandle.Update with a task that requests kill timeout t.
Update(h, t) ==
    /\ ~crashed
    /\ opened' = "none"
    /\ UNCHANGED <<prov, vol, parse, stats>>
    /\ Exists(h)
    /\ handle' = [handle EXCEPT ![h].killTimeout =
                      GetKillTimeout(t, handle[h].killTimeout)]
    /\ UNCHANGED <<container, mon, waitCh, doneCh, kill, destroyLog, crashed>>

\* Kill returns value ret with call record k: the deferred close(h.doneCh)
\* runs.  Closing a channel that is already closed panics.
KillReturn(h, k, ret) ==
    IF doneCh[h].closed
    THEN /\ crashed' = TRUE
         /\ doneCh' = [doneCh EXCEPT ![h].nClosed = @ + 1]
         /\ kill' = [kill EXCEPT ![h] = [k EXCEPT !.pc = "idle",
                                                  !.ret = "panic"]]
    ELSE /\ doneCh' = [doneCh EXCEPT ![h] = Close(@)]
         /\ kill' = [kill EXCEPT ![h] = [k EXCEPT !.pc = "idle",
                                                  !.ret = ret,
                                                  !.returned = TRUE]]
         /\ UNCHANGED crashed

\* Mutant of KillCall: close(h.doneCh) runs on entry instead of deferred.
KillCall_SignalFirst(h) ==
    /\ ~crashed
    /\ opened' = "none"
    /\ UNCHANGED <<prov, vol, parse, stats>>
    /\ Exists(h)
    /\ kill[h].pc = "idle"
    /\ LET k == [IdleKill EXCEPT !.repeat = kill[h].returned,
                                 !.running = Running,
                                 !.returned = kill[h].returned]
       IN IF Running /\ ~doneCh[h].closed
          THEN /\ kill' = [kill EXCEPT ![h] = [k EXCEPT !.pc = "shutdown"]]
               /\ doneCh' = [doneCh EXCEPT ![h] = Close(@)]
               /\ UNCHANGED crashed
          ELSE KillReturn(h, k, "nil")
    /\ UNCHANGED <<container, handle, mon, waitCh, destroyLog>>

\* Kill, entry: defer close(h.doneCh) is registered and container.Running()
\* is read.  When the container is not running the call returns nil at
\* once, and the deferred close runs.
KillCall(h) ==
    /\ ~crashed
    /\ opened' = "none"
    /\ UNCHANGED <<prov, vol, parse, stats>>
    /\ Exists(h)
    /\ kill[h].pc = "idle"
    /\ LET k == [IdleKill EXCEPT !.repeat = kill[h].returned,
                                 !.running = Running,
                                 !.returned = kill[h].returned]
       IN IF Running
          THEN /\ kill' = [kill EXCEPT ![h] = [k EXCEPT !.pc = "shutdown"]]
               /\ UNCHANGED <<doneCh, crashed>>
          ELSE KillReturn(h, k, "nil")
    /\ UNCHANGED <<container, handle, mon, waitCh, destroyLog>>

\* Mutant of KillFinish: Kill destroys the container itself before it
\* returns.
KillFinish_Destroys(h) ==
    /\ ~crashed
    /\ opened' = "none"
    /\ UNCHANGED <<prov, vol, parse, stats>>
    /\ kill[h].pc = "shutdown"
    /\ container' = [container EXCEPT !.state = "absent", !.initPid = 0]
    /\ destroyLog' = destroyLog \cup {"Kill"}
    /\ KillReturn(h, [kill[h] EXCEPT !.shut = "ok"], "nil")
    /\ UNCHANGED <<handle, mon, waitCh>>

\* Mutant of KillFinish: close(h.doneCh) is the last statement before
\* return nil instead of being deferred, so the error return skips it.
KillFinish_CloseOnSuccess(h) ==
    /\ ~crashed
    /\ opened' = "none"
    /\ UNCHANGED <<prov, vol, parse, stats>>
    /\ kill[h].pc = "shutdown"
    /\ \E shutOk \in BOOLEAN, stopOk \in BOOLEAN :
          /\ shutOk => stopOk
          /\ container' = IF shutOk \/ stopOk THEN Stopped(container)
                          ELSE container
          /\ LET k == [kill[h] EXCEPT
                          !.shut = IF shutOk THEN "ok" ELSE "fail",
                          !.stop = IF shutOk THEN "none"
                                   ELSE IF stopOk THEN "ok" ELSE "fail"]
             IN IF shutOk \/ stopOk
                THEN KillReturn(h, k, "nil")
                ELSE /\ kill' = [kill EXCEPT ![h] =
                            [k EXCEPT !.pc = "idle", !.ret = "err",
                                      !.returned = TRUE]]
                     /\ UNCHANGED <<doneCh, crashed>>
    /\ UNCHANGED <<handle, mon, waitCh, destroyLog>>

\* Kill on a running container: h.container.Shutdown(h.killTimeout) returns;
\* only after its failure h.container.Stop() is called; Kill returns an
\* error only when Stop failed too, and the deferred close runs.
KillFinish(h) ==
    /\ ~crashed
    /\ opened' = "none"
    /\ UNCHANGED <<prov, vol, parse, stats>>
    /\ kill[h].pc = "shutdown"
    /\ \E shutOk \in BOOLEAN, stopOk \in BOOLEAN :
          /\ shutOk => stopOk      \* Stop is not called: one outcome
          /\ container' = IF shutOk \/ stopOk THEN Stopped(container)
                          ELSE container
          /\ KillReturn(h, [kill[h] EXCEPT
                               !.shut = IF shutOk THEN "ok" ELSE "fail",
                               !.stop = IF shutOk THEN "none"
                                        ELSE IF stopOk THEN "ok" ELSE "fail"],
                        IF shutOk \/ stopOk THEN "nil" ELSE "err")
    /\ UNCHANGED <<handle, mon, waitCh, destroyLog>>

\* The orchestrator receives the buffered WaitResult from h.WaitCh().
Receive(h) ==
    /\ ~crashed
    /\ opened' = "none"
    /\ UNCHANGED <<prov, vol, parse, stats>>
    /\ Exists(h)
    /\ waitCh[h].buf # <<>>
    /\ waitCh' = [waitCh EXCEPT ![h].buf = Tail(@)]
    /\ UNCHANGED <<container, handle, mon, doneCh, kill, destroyLog, crashed>>

\* The container's init process exits by itself.
ProcessExit ==
    /\ ~crashed
    /\ opened' = "none"
    /\ UNCHANGED <<prov, vol, parse, stats>>
    /\ Running
    /\ container' = Stopped(container)
    /\ UNCHANGED <<handle, mon, waitCh, doneCh, kill, destroyLog, crashed>>

----------------------------------------------------------------------------
\* The monitor goroutine h.run().

\* Mutant of runTimer: a dead process starts the teardown, and nothing is
\* published first.
runTimer_TeardownFirst(h) ==
    /\ ~crashed
    /\ opened' = "none"
    /\ UNCHANGED <<prov, vol, parse, stats>>
    /\ mon[h].pc = "select"
    /\ IF Alive(h)
       THEN UNCHANGED mon
       ELSE mon' = [mon EXCEPT ![h].trigger = "probe", ![h].pc = "cleanup"]
    /\ UNCHANGED <<container, handle, waitCh, doneCh, kill, destroyLog,
                   crashed>>

\* Mutant of runTimer: the tick publishes an empty result and ends the
\* loop without probing the process.
runTimer_NoProbe(h) ==
    /\ ~crashed
    /\ opened' = "none"
    /\ UNCHANGED <<prov, vol, parse, stats>>
    /\ mon[h].pc = "select"
    /\ CanSend(waitCh[h])
    /\ waitCh' = [waitCh EXCEPT ![h] = Send(@, "ok")]
    /\ mon' = [mon EXCEPT ![h].trigger = "probe", ![h].pc = "cleanup"]
    /\ UNCHANGED <<container, handle, doneCh, kill, destroyLog, crashed>>

\* case <-timer.C: os.FindProcess, then process.Signal(0).  A process that
\* is gone is reported by the lookup (WaitResult{Err: err}) or by the probe
\* (WaitResult{}); a live one re-arms the timer.
runTimer(h) ==
    /\ ~crashed
    /\ opened' = "none"
    /\ UNCHANGED <<prov, vol, parse, stats>>
    /\ mon[h].pc = "select"
    /\ IF Alive(h)
       THEN UNCHANGED <<mon, waitCh>>      \* timer.Reset(containerMonitorIntv)
       ELSE /\ CanSend(waitCh[h])
            /\ \E lookupFailed \in BOOLEAN :
                  /\ waitCh' = [waitCh EXCEPT ![h] =
                        Send(@, IF lookupFailed THEN "err" ELSE "ok")]
                  /\ mon' = [mon EXCEPT
                        ![h].trigger = IF lookupFailed THEN "lookup"
                                       ELSE "probe",
                        ![h].pc = "cleanup"]
    /\ UNCHANGED <<container, handle, doneCh, kill, destroyLog, crashed>>

\* Mutant of runDoneCh: the return after the send is missing, so the loop
\* selects again.
runDoneCh_NoReturn(h) ==
    /\ ~crashed
    /\ opened' = "none"
    /\ UNCHANGED <<prov, vol, parse, stats>>
    /\ mon[h].pc = "select"
    /\ doneCh[h].closed
    /\ CanSend(waitCh[h])
    /\ waitCh' = [waitCh EXCEPT ![h] = Send(@, "ok")]
    /\ mon' = [mon EXCEPT ![h].trigger = "kill"]
    /\ UNCHANGED <<container, handle, doneCh, kill, destroyLog, crashed>>

\* case <-h.doneCh: the receive is ready once Kill has closed doneCh.
runDoneCh(h) ==
    /\ ~crashed
    /\ opened' = "none"
    /\ UNCHANGED <<prov, vol, parse, stats>>
    /\ mon[h].pc = "select"
    /\ doneCh[h].closed
    /\ CanSend(waitCh[h])
    /\ waitCh' = [waitCh EXCEPT ![h] = Send(@, "ok")]
    /\ mon' = [mon EXCEPT ![h].trigger = "kill", ![h].pc = "cleanup"]
    /\ UNCHANGED <<container, handle, doneCh, kill, destroyLog, crashed>>

\* Mutant of cleanupContainer: the deferred function only closes waitCh.
cleanupContainer_Skipped(h) ==
    /\ ~crashed
    /\ opened' = "none"
    /\ UNCHANGED <<prov, vol, parse, stats>>
    /\ mon[h].pc = "cleanup"
    /\ mon' = [mon EXCEPT ![h].pc = "close"]
    /\ UNCHANGED <<container, handle, waitCh, doneCh, kill, destroyLog,
                   crashed>>

\* Mutant of cleanupContainer: when the wait times out the function
\* returns without calling Destroy.
cleanupContainer_GiveUpOnTimeout(h) ==
    /\ ~crashed
    /\ opened' = "none"
    /\ UNCHANGED <<prov, vol, parse, stats>>
    /\ mon[h].pc = "cleanup"
    /\ mon' = [mon EXCEPT ![h].cleaned = TRUE, ![h].pc = "close"]
    /\ IF Running
       THEN UNCHANGED <<container, destroyLog>>
       ELSE /\ \E ok \in BOOLEAN :
                  /\ ok => Defined
                  /\ container' = IF ok
                                  THEN [container EXCEPT !.state = "absent",
                                                         !.initPid = 0]
                                  ELSE container
            /\ destroyLog' = destroyLog \cup {"cleanupContainer"}
    /\ UNCHANGED <<handle, waitCh, doneCh, kill, crashed>>

\* Deferred h.cleanupContainer(): container.Wait(lxc.STOPPED, 15s), which
\* times out when the container is still running and whose timeout is only
\* logged, then container.Destroy(), whose error is logged and returned,
\* and dropped by run().
cleanupContainer(h) ==
    /\ ~crashed
    /\ opened' = "none"
    /\ UNCHANGED <<prov, vol, parse, stats>>
    /\ mon[h].pc = "cleanup"
    /\ \E ok \in BOOLEAN :
          /\ ok => Defined
          /\ container' = IF ok
                          THEN [container EXCEPT !.state = "absent",
                                                 !.initPid = 0]
                          ELSE container
          /\ mon' = [mon EXCEPT ![h].cleaned = TRUE, ![h].pc = "close"]
    /\ destroyLog' = destroyLog \cup {"cleanupContainer"}
    /\ UNCHANGED <<handle, waitCh, doneCh, kill, crashed>>

\* Deferred close(h.waitCh); the goroutine ends.
runClose(h) ==
    /\ ~crashed
    /\ opened' = "none"
    /\ UNCHANGED <<prov, vol, parse, stats>>
    /\ mon[h].pc = "close"
    /\ IF waitCh[h].closed
       THEN /\ crashed' = TRUE
            /\ waitCh' = [waitCh EXCEPT ![h].nClosed = @ + 1]
       ELSE /\ waitCh' = [waitCh EXCEPT ![h] = Close(@)]
            /\ UNCHANGED crashed
    /\ mon' = [mon EXCEPT ![h].pc = "done"]
    /\ UNCHANGED <<container, handle, doneCh, kill, destroyLog>>

----------------------------------------------------------------------------
Next ==
    \/ \E t \in TaskTimeouts : Start(t)
    \/ \E g \in Handles : Open(g)
    \/ \E t \in TaskTimeouts : OpenPersisted(t)
    \/ \E h \in Handles, t \in TaskTimeouts : Update(h, t)
    \/ \E h \in Handles : KillCall(h)
    \/ \E h \in Handles : KillFinish(h)
    \/ \E h \in Handles : Receive(h)
    \/ ProcessExit
    \/ \E h \in Handles : runTimer(h)
    \/ \E h \in Handles : runDoneCh(h)
    \/ \E h \in Handles : cleanupContainer(h)
    \/ \E h \in Handles : runClose(h)

Spec == Init /\ [][Next]_vars

----------------------------------------------------------------------------
\* Strings are sequences of one-character strings.

\* The characters that decide a volume spec: an ordinary character, the
\* path separator and the separator of the two paths.
VolChars == {"a", "/", ":"}
StringsUpTo(chars, n) == UNION {[1..k -> chars] : k \in 0..n}
VolStrings == StringsUpTo(VolChars, MaxVolLen)
VolumeLists(k) == [1..k -> VolStrings]

\* strings.Index(s, sep) for a one-character sep, counted from 1; 0 when
\* sep does not occur.
Index(s, sep) ==
    IF \E i \in 1..Len(s) : s[i] = sep
    THEN CHOOSE i \in 1..Len(s) :
             s[i] = sep /\ \A j \in 1..(i - 1) : s[j] # sep
    ELSE 0

\* strings.Split(s, sep) for a one-character sep.
RECURSIVE Split(_, _)
Split(s, sep) ==
    LET i == Index(s, sep)
    IN IF i = 0 THEN <<s>>
       ELSE <<SubSeq(s, 1, i - 1)>> \o Split(SubSeq(s, i + 1, Len(s)), sep)

\* Mutant of CheckVolume: the check of the container-side path is missing.
CheckVolume_AbsoluteAllowed(volStr) ==
    LET paths == Split(volStr, ":")
    IN IF Len(paths) # 2 THEN "invalid volume bind mount entry"
       ELSE IF Len(paths[1]) = 0 \/ Len(paths[2]) = 0
            THEN "invalid volume bind mount entry"
       ELSE "nil"

\* The body of validateVolumesConfig's loop for one volume spec: the error
\* it returns, or "nil" when the loop goes on.
CheckVolume(volStr) ==
    LET paths == Split(volStr, ":")
    IN IF Len(paths) # 2 THEN "invalid volume bind mount entry"
       ELSE IF Len(paths[1]) = 0 \/ Len(paths[2]) = 0
            THEN "invalid volume bind mount entry"
       ELSE IF paths[2][1] = "/"
            THEN "unsupported absolute container mount point"
       ELSE "nil"

\* LxcDriver.validateVolumesConfig, one iteration of its range loop per
\* step: the first spec that fails a check ends the call with its error;
\* after the last spec the call returns nil.
validateVolumesConfig ==
    /\ vol.pc = "loop"
    /\ IF vol.i > Len(vol.volumes)
       THEN vol' = [vol EXCEPT !.pc = "returned", !.err = "nil"]
       ELSE LET err == CheckVolume(vol.volumes[vol.i])
            IN IF err # "nil"
               THEN vol' = [vol EXCEPT !.pc = "returned", !.err = err]
               ELSE vol' = [vol EXCEPT !.i = @ + 1]
    /\ UNCHANGED <<container, handle, mon, waitCh, doneCh, kill, destroyLog,
                   crashed, opened, prov, parse, stats>>

\* The task directory ctx.TaskDir.Dir, an absolute path.
TaskDir == <<"/", "t">>

\* filepath.IsAbs on a Unix path.
IsAbs(path) == path # <<>> /\ path[1] = "/"

\* filepath.Clean for paths without "." elements: runs of separators are
\* collapsed and a trailing separator is dropped, except for the root.
RECURSIVE Clean(_)
Clean(path) ==
    IF Len(path) < 2 THEN path
    ELSE IF path[Len(path)] = "/"
    THEN Clean(SubSeq(path, 1, Len(path) - 1))
    ELSE IF \E i \in 1..(Len(path) - 1) : path[i] = "/" /\ path[i + 1] = "/"
    THEN LET i == CHOOSE i \in 1..(Len(path) - 1) :
                      path[i] = "/" /\ path[i + 1] = "/"
         IN Clean(SubSeq(path, 1, i) \o SubSeq(path, i + 2, Len(path)))
    ELSE path

\* filepath.Join(dir, path): empty elements are ignored, the rest is
\* joined with one separator and cleaned.
Join(dir, path) ==
    IF path = <<>> THEN Clean(dir) ELSE Clean(dir \o <<"/">> \o path)

\* The volume loop of setCommonContainerConfig over the specs in volumes,
\* with mounts the entries appended so far (as <<source, target>>): an
\* absolute host path is an error unless volumes are enabled, a relative
\* one is joined to the task directory; paths[1] of a spec without ':' is
\* out of range.
RECURSIVE VolumeMounts(_, _, _)
VolumeMounts(volumes, volumesEnabled, mounts) ==
    IF volumes = <<>> THEN [err |-> "nil", mounts |-> mounts]
    ELSE LET paths == Split(Head(volumes), ":")
         IN IF IsAbs(paths[1]) /\ ~volumesEnabled
            THEN [err |-> "err", mounts |-> mounts]
            ELSE IF Len(paths) < 2
            THEN [err |-> "panic", mounts |-> mounts]
            ELSE VolumeMounts(Tail(volumes), volumesEnabled,
                     Append(mounts,
                            <<IF IsAbs(paths[1]) THEN paths[1]
                              ELSE Join(TaskDir, paths[1]),
                              paths[2]>>))

\* fmt.Sprintf("%s %s none rw,bind,create=dir", source, target): the four
\* fields of one lxc.mount.entry value.
MountEntry(source, target) == <<source, target, "none", "rw,bind,create=dir">>

\* The initial value of mounts: ctx.TaskDir.LocalDir, SharedAllocDir and
\* SecretsDir, three directories of the task, mounted at local, alloc and
\* secrets.
StandardMounts ==
    << MountEntry(TaskDir \o <<"/", "local">>, <<"local">>),
       MountEntry(TaskDir \o <<"/", "alloc">>, <<"alloc">>),
       MountEntry(TaskDir \o <<"/", "secrets">>, <<"secrets">>) >>

\* The values that setCommonContainerConfig passes to
\* c.SetConfigItem("lxc.mount.entry", mnt), in call order: the loop over
\* mounts before the volume loop, then, when the volume loop returned no
\* error, the loop over mounts after it, where mounts holds the three
\* initial entries followed by the appended volume entries.
SetMountEntries(volumes, volumesEnabled) ==
    LET r == VolumeMounts(volumes, volumesEnabled, <<>>)
    IN StandardMounts \o
       (IF r.err = "nil"
        THEN StandardMounts \o
             [i \in 1..Len(r.mounts) |->
                 MountEntry(r.mounts[i][1], r.mounts[i][2])]
        ELSE <<>>)

\* setCommonContainerConfig's handling of the task's volumes on a node
\* whose volumes option is gate, run on the list that validateVolumesConfig
\* has judged: the error of the volume loop, and the volume entries that
\* the second mount loop hands to c.SetConfigItem("lxc.mount.entry"),
\* which it reaches only when the volume loop returned no error, and all
\* the mount entries the call has set on the container.
resolveVolumes ==
    /\ vol.pc = "returned"
    /\ \E gate \in BOOLEAN :
          LET r == VolumeMounts(vol.volumes, gate, <<>>)
          IN vol' = [vol EXCEPT !.pc = "resolved", !.gate = gate,
                                !.dyn = r.err,
                                !.emitted = IF r.err = "nil" THEN r.mounts
                                            ELSE <<>>,
                                !.assigned =
                                    SetMountEntries(vol.volumes, gate)]
    /\ UNCHANGED <<container, handle, mon, waitCh, doneCh, kill, destroyLog,
                   crashed, opened, prov, parse, stats>>

\* validateVolumesConfig is called with any list of volume specs.
VolInit ==
    /\ container = [state |-> "absent", initPid |-> 0, lastPid |-> 0]
    /\ handle = [h \in Handles |-> NoHandle]
    /\ mon = [h \in Handles |-> NoMon]
    /\ waitCh = [h \in Handles |-> NewChan]
    /\ doneCh = [h \in Handles |-> NewChan]
    /\ kill = [h \in Handles |-> IdleKill]
    /\ destroyLog = {}
    /\ crashed = FALSE
    /\ opened = "none"
    /\ prov = NoProv
    /\ parse = NoParse
    /\ stats = NoStats
    /\ \E k \in 0..MaxVolumes : \E volumes \in VolumeLists(k) :
          vol = [pc |-> "loop", volumes |-> volumes, i |-> 1, err |-> "none",
                 gate |-> FALSE, dyn |-> "none", emitted |-> <<>>,
                 assigned |-> <<>>]

VolNext == validateVolumesConfig \/ resolveVolumes

VolSpec == VolInit /\ [][VolNext]_vars

----------------------------------------------------------------------------
\* Start's provisioning sequence: startWithCleanup, then startContainer
\* (template mode) or executeContainer (clone mode, use_execute).

LvmPrefix == <<"l", "v", "m", ":">>
DevPrefix == <<"/", "d", "e", "v", "/">>
DevMapperPrefix == DevPrefix \o <<"m", "a", "p", "p", "e", "r", "/">>

\* strings.HasPrefix, strings.LastIndex (counted from 1, 0 when absent).
HasPrefix(s, prefix) ==
    Len(s) >= Len(prefix) /\ SubSeq(s, 1, Len(prefix)) = prefix
LastIndex(s, sep) ==
    IF \E i \in 1..Len(s) : s[i] = sep
    THEN CHOOSE i \in 1..Len(s) :
             s[i] = sep /\ \A j \in (i + 1)..Len(s) : s[j] # sep
    ELSE 0

\* The characters of [a-zA-Z0-9_+.-] among those the model's paths use.
VgNameChars == {"a", "d", "e", "g", "l", "m", "p", "r", "v", "-"}

\* The matches of devMapperRE in s, as <<p, e>>: the match begins at p and
\* its group ([a-zA-Z0-9_+.-]*[^-]) ends at e, followed by one '-' and one
\* character that is not '-'.
MapperMatches(s) ==
    {m \in (1..Len(s)) \X (1..Len(s)) :
        LET q == m[1] + Len(DevMapperPrefix)
        IN /\ q <= m[2]
           /\ m[2] + 2 <= Len(s)
           /\ SubSeq(s, m[1], q - 1) = DevMapperPrefix
           /\ \A i \in q..(m[2] - 1) : s[i] \in VgNameChars
           /\ s[m[2]] # "-"
           /\ s[m[2] + 1] = "-"
           /\ s[m[2] + 2] # "-"}

\* extractVgName(baseLvName): the volume group and the error; "panic" when
\* the slice baseLvName[len("/dev/"):LastIndex] is out of range.
extractVgName(baseLvName) ==
    LET Result(vgName) ==
            IF Len(vgName) = 0
            THEN [vgName |-> <<>>, err |-> "err"]
            ELSE [vgName |-> vgName, err |-> "nil"]
        matches == MapperMatches(baseLvName)
    IN IF ~HasPrefix(baseLvName, <<"/">>)
       THEN LET c == Split(baseLvName, "/")
            IN IF Len(c) # 2 THEN [vgName |-> <<>>, err |-> "err"]
               ELSE Result(c[1])
       ELSE IF matches # {}
       THEN LET m == CHOOSE m \in matches :
                         \A n \in matches :
                             \/ m[1] < n[1]
                             \/ m[1] = n[1] /\ m[2] >= n[2]
            IN Result(SubSeq(baseLvName, m[1] + Len(DevMapperPrefix), m[2]))
       ELSE IF HasPrefix(baseLvName, DevPrefix)
       THEN IF LastIndex(baseLvName, "/") <= Len(DevPrefix)
            THEN [vgName |-> <<>>, err |-> "panic"]
            ELSE Result(SubSeq(baseLvName, Len(DevPrefix) + 1,
                               LastIndex(baseLvName, "/") - 1))
       ELSE Result(<<>>)

\* tr of executeContainer: strings.Replace(s, "-", "--", -1).
RECURSIVE tr(_)
tr(s) ==
    IF s = <<>> THEN <<>>
    ELSE (IF Head(s) = "-" THEN <<"-", "-">> ELSE <<Head(s)>>) \o tr(Tail(s))

\* storageName of executeContainer: the device-mapper path of the snapshot
\* named name in volume group vgName, with its "lvm:" prefix.
storageName(vgName, name) ==
    LvmPrefix \o DevMapperPrefix \o tr(vgName) \o <<"-">> \o tr(name)

\* The names of volume groups, logical volumes and containers: non-empty,
\* of letters and '-', not beginning with '-'.
LvmNames ==
    {n \in StringsUpTo({"a", "-"}, MaxNameLen) : n # <<>> /\ n[1] # "-"}

\* The three forms of a reference to logical volume lv of volume group vg.
VgForms == {"vg/lv", "/dev/mapper/vg-lv", "/dev/vg/lv"}
LvReference(form, vg, lv) ==
    CASE form = "vg/lv" -> vg \o <<"/">> \o lv
      [] form = "/dev/mapper/vg-lv" ->
             SubSeq(storageName(vg, lv), Len(LvmPrefix) + 1,
                    Len(storageName(vg, lv)))
      [] form = "/dev/vg/lv" -> DevPrefix \o vg \o <<"/">> \o lv

\* extractVgName is called with a reference to lv of vg in one of the forms.
ParseInit ==
    /\ container = [state |-> "absent", initPid |-> 0, lastPid |-> 0]
    /\ handle = [h \in Handles |-> NoHandle]
    /\ mon = [h \in Handles |-> NoMon]
    /\ waitCh = [h \in Handles |-> NewChan]
    /\ doneCh = [h \in Handles |-> NewChan]
    /\ kill = [h \in Handles |-> IdleKill]
    /\ destroyLog = {}
    /\ crashed = FALSE
    /\ opened = "none"
    /\ prov = NoProv
    /\ vol = NoVol
    /\ stats = NoStats
    /\ \E form \in VgForms, vg \in LvmNames, lv \in LvmNames :
          parse = [pc |-> "call", form |-> form, vg |-> vg, lv |-> lv,
                   baseLvName |-> LvReference(form, vg, lv),
                   vgName |-> <<>>, err |-> "none"]

\* The call vgName, err := extractVgName(baseLvName) returns.
callExtractVgName ==
    /\ parse.pc = "call"
    /\ LET r == extractVgName(parse.baseLvName)
       IN parse' = [parse EXCEPT !.pc = "returned", !.vgName = r.vgName,
                                 !.err = r.err]
    /\ UNCHANGED <<container, handle, mon, waitCh, doneCh, kill, destroyLog,
                   crashed, opened, prov, vol, stats>>

ParseNext == callExtractVgName

ParseSpec == ParseInit /\ [][ParseNext]_vars

\* The error of setCommonContainerConfig's volume loop.
ResolveVolumes(volumes, volumesEnabled) ==
    VolumeMounts(volumes, volumesEnabled, <<>>).err

\* How setCommonContainerConfig can end: any c.SetConfigItem may fail, and
\* the volume loop decides otherwise.
setCommonContainerConfig(volumes, volumesEnabled) ==
    {"err"} \cup {IF ResolveVolumes(volumes, volumesEnabled) = "nil"
                  THEN "ok"
                  ELSE ResolveVolumes(volumes, volumesEnabled)}

\* The steps of the two strategies, in the order of the code.  "resolve"
\* is startWithCleanup's own part: decoding the common configuration,
\* lxc.NewContainer, verbosity and log level.
\* Mutant of TemplateSteps: the handle is built and its monitor spawned
\* before the resource limits are set.
TemplateSteps_MonitorBeforeLimits ==
    <<"resolve", "decodeStart", "Create", "setCommon", "Start", "handle",
      "SetMemoryLimit", "SetCgroupItem">>

TemplateSteps ==
    <<"resolve", "decodeStart", "Create", "setCommon", "Start",
      "SetMemoryLimit", "SetCgroupItem", "handle">>
CloneSteps ==
    <<"resolve", "decodeExecute", "MkdirAll", "lvmPrefix", "lvcreate",
      "extractVgName", "osCreate", "Chmod", "ParseFiles", "Execute",
      "LoadConfigFile", "setCommon", "StartExecute", "SetMemoryLimit",
      "SetCgroupItem", "handle">>
Steps(mode) == IF mode = "clone" THEN CloneSteps ELSE TemplateSteps

\* What a step leaves in the world once it has succeeded.
Commits(step) ==
    CASE step = "Create" -> "container"
      [] step \in {"Start", "StartExecute"} -> "running"
      [] step = "MkdirAll" -> "dir"
      [] step = "lvcreate" -> "lv"
      [] step = "osCreate" -> "config"
      [] OTHER -> "none"

\* The closure that is returned with the error of a failing step.
CleanupOf(mode, step) ==
    IF mode = "clone"
    THEN CASE step = "osCreate" -> "removeLVCleanup"
           [] step \in {"Chmod", "ParseFiles", "Execute", "LoadConfigFile",
                        "setCommon", "StartExecute"} -> "removeConfigCleanup"
           [] step \in {"SetMemoryLimit", "SetCgroupItem"} ->
                  "stopAndRemoveConfigCleanup"
           [] OTHER -> "noCleanup"
    ELSE CASE step \in {"setCommon", "Start"} -> "c.Destroy"
           [] step \in {"SetMemoryLimit", "SetCgroupItem"} ->
                  "stopAndDestroyCleanup"
           [] OTHER -> "noCleanup"

\* How a step can end: "ok", "err" (an error is returned) or "panic".
\* BaseRootFsPath[:4] panics on a path shorter than 4; the assertion
\* err.(*exec.ExitError) panics when lvcreate could not be run at all.
Outcomes(p, step) ==
    CASE step = "lvmPrefix" ->
             IF Len(p.base) < 4 THEN {"panic"}
             ELSE IF SubSeq(p.base, 1, 4) # LvmPrefix THEN {"err"}
             ELSE {"ok"}
      [] step = "lvcreate" -> {"ok", "err", "panic"}
      [] step = "extractVgName" ->
             LET r == extractVgName(SubSeq(p.base, 5, Len(p.base)))
             IN {IF r.err = "nil" THEN "ok" ELSE r.err}
      [] step = "setCommon" -> setCommonContainerConfig(p.volumes, p.gate)
      [] step = "handle" -> {"ok"}
      [] OTHER -> {"ok", "err"}

\* The operations of the runtime and the file system that undo an effect.
UndoOps == {"Destroy", "Stop", "lvremove", "Remove"}
Undoes(op) ==
    CASE op = "Destroy" -> "container"
      [] op = "Stop" -> "running"
      [] op = "lvremove" -> "lv"
      [] op = "Remove" -> "config"

\* removeConfigCleanup: removeLVCleanup, and os.Remove unless that failed.
removeConfigCleanup(failing) ==
    IF "lvremove" \in failing THEN <<"lvremove">>
    ELSE <<"lvremove", "Remove">>

\* The operations a cleanup closure calls, in order, when the operations
\* in failing return an error.
RunCleanup(cleanup, failing) ==
    CASE cleanup = "noCleanup" -> <<>>
      [] cleanup = "c.Destroy" -> <<"Destroy">>
      [] cleanup = "stopAndDestroyCleanup" ->
             IF "Stop" \in failing THEN <<"Stop">> ELSE <<"Stop", "Destroy">>
      [] cleanup = "removeLVCleanup" -> <<"lvremove">>
      [] cleanup = "removeConfigCleanup" -> removeConfigCleanup(failing)
      [] cleanup = "stopAndRemoveConfigCleanup" ->
             removeConfigCleanup(failing) \o <<"Stop">>

Range(seq) == {seq[i] : i \in 1..Len(seq)}

\* The base_rootfs_path values of the runs: an LVM reference vg/lv, one in
\* /dev/vg/lv form, one without a volume group, one of another backend and
\* one shorter than the prefix.
BaseRootFsPaths ==
    {LvmPrefix \o <<"v", "g", "/", "l", "v">>,
     LvmPrefix \o DevPrefix \o <<"v", "g", "/", "l", "v">>,
     LvmPrefix \o <<"l", "v">>,
     <<"d", "i", "r", ":", "v", "g", "/", "l", "v">>,
     <<"l", "v">>}

\* The volume specs that Validate has accepted.
ValidVolumes == {v \in VolStrings : CheckVolume(v) = "nil"}

\* Start is called with a task: its mode, base_rootfs_path and volumes, on
\* a node whose volumes option is gate.
ProvInit ==
    /\ container = [state |-> "absent", initPid |-> 0, lastPid |-> 0]
    /\ handle = [h \in Handles |-> NoHandle]
    /\ mon = [h \in Handles |-> NoMon]
    /\ waitCh = [h \in Handles |-> NewChan]
    /\ doneCh = [h \in Handles |-> NewChan]
    /\ kill = [h \in Handles |-> IdleKill]
    /\ destroyLog = {}
    /\ crashed = FALSE
    /\ opened = "none"
    /\ vol = NoVol
    /\ parse = NoParse
    /\ stats = NoStats
    /\ \E mode \in {"template", "clone"}, base \in BaseRootFsPaths,
          gate \in BOOLEAN, k \in 0..MaxVolumes :
          \E volumes \in [1..k -> ValidVolumes] :
             prov = [pc |-> "run", mode |-> mode, base |-> base,
                     volumes |-> volumes, gate |-> gate, step |-> 1,
                     commits |-> <<>>, effects |-> {}, failedAt |-> "none",
                     cleanup |-> "none", undone |-> <<>>,
                     undoFailed |-> FALSE, nCleanup |-> 0, ret |-> "none",
                     sresp |-> "none", monitor |-> FALSE,
                     destroy |-> "none"]

\* The steps that have succeeded so far in run p.
StepsDone(p) == {Steps(p.mode)[k] : k \in 1..(p.step - 1)}

\* startWithCleanup, one step of the sequence: the step succeeds and its
\* effect is committed, or it fails and startWithCleanup returns nil and the
\* error with the cleanup closure of that place, or it panics.  The step
\* "handle" builds the handle and spawns its monitor with go h.run(); after
\* the last step the StartResponse with the handle is returned.
startWithCleanup ==
    /\ prov.pc = "run"
    /\ LET step == Steps(prov.mode)[prov.step]
           last == prov.step = Len(Steps(prov.mode))
       IN \E outcome \in Outcomes(prov, step) :
             prov' =
               CASE outcome = "panic" ->
                        [prov EXCEPT !.pc = "returned", !.failedAt = step,
                                     !.ret = "panic"]
                 [] outcome = "err" ->
                        [prov EXCEPT !.pc = "failed", !.failedAt = step,
                                     !.sresp = "nil",
                                     !.cleanup = CleanupOf(prov.mode, step)]
                 [] OTHER ->
                        [prov EXCEPT
                           !.pc = IF last THEN "succeeded" ELSE @,
                           !.cleanup = IF last THEN "noCleanup" ELSE @,
                           !.sresp = IF last THEN "handle" ELSE @,
                           !.monitor = @ \/ step = "handle",
                           !.step = @ + 1,
                           !.commits = IF Commits(step) = "none" THEN @
                                       ELSE Append(@, Commits(step)),
                           !.effects = @ \cup ({Commits(step)} \ {"none"})]
    /\ UNCHANGED <<container, handle, mon, waitCh, doneCh, kill, destroyLog,
                   crashed, opened, vol, parse, stats>>

\* Mutant of errCleanup: Start returns the error without calling the
\* closure.
errCleanup_Dropped ==
    /\ prov.pc = "failed"
    /\ prov' = [prov EXCEPT !.pc = "cleaned"]
    /\ UNCHANGED <<container, handle, mon, waitCh, doneCh, kill, destroyLog,
                   crashed, opened, vol, parse, stats>>

\* Start, err != nil: errCleanup() is called; its own error is only logged.
errCleanup ==
    /\ prov.pc = "failed"
    /\ \E failing \in SUBSET UndoOps :
          LET ops == RunCleanup(prov.cleanup, failing)
          IN /\ failing \subseteq Range(ops)
             /\ prov' = [prov EXCEPT
                   !.pc = "cleaned",
                   !.nCleanup = @ + 1,
                   !.undone = ops,
                   !.undoFailed = failing # {},
                   !.effects = @ \ {Undoes(op) : op \in Range(ops) \ failing}]
    /\ UNCHANGED <<container, handle, mon, waitCh, doneCh, kill, destroyLog,
                   crashed, opened, vol, parse, stats>>

\* Start: return sresp, err.
StartReturn ==
    /\ prov.pc \in {"succeeded", "cleaned"}
    /\ prov' = [prov EXCEPT !.pc = "returned",
                            !.ret = IF prov.pc = "succeeded" THEN "ok"
                                    ELSE "err"]
    /\ UNCHANGED <<container, handle, mon, waitCh, doneCh, kill, destroyLog,
                   crashed, opened, vol, parse, stats>>

\* What container.Destroy() removes for certain when it succeeds: the
\* container with its directory and its config file.
DestroyRemoves == {"container", "running", "dir", "config"}

\* The monitor of the handle that Start returned ends: its deferred
\* function runs cleanupContainer, which calls container.Destroy() and
\* nothing else ("NOT removing lv"), and closes waitCh.  Whether a Destroy
\* that succeeds also removes the snapshot behind the rootfs is the
\* runtime's affair.
monitorTeardown ==
    /\ prov.pc = "returned"
    /\ prov.ret = "ok"
    /\ \E destroyed \in BOOLEAN, lvRemoved \in BOOLEAN :
          /\ lvRemoved => destroyed /\ "lv" \in prov.effects
          /\ prov' = [prov EXCEPT
                !.pc = "closed",
                !.monitor = FALSE,
                !.destroy = IF destroyed THEN "ok" ELSE "fail",
                !.effects =
                    IF destroyed
                    THEN @ \ (DestroyRemoves \cup
                              (IF lvRemoved THEN {"lv"} ELSE {}))
                    ELSE @]
    /\ UNCHANGED <<container, handle, mon, waitCh, doneCh, kill, destroyLog,
                   crashed, opened, vol, parse, stats>>

ProvNext == startWithCleanup \/ errCleanup \/ StartReturn \/ monitorTeardown

ProvSpec == ProvInit /\ [][ProvNext]_vars

----------------------------------------------------------------------------
\* lxcDriverHandle.Stats on one handle, with the container's CPU counters
\* and the clock as the environment.  The memory part of Stats reads cgroup
\* items whose failures are logged and skipped; it is left out.

\* stats.NewCpuStats(): a rate accumulator that has seen no sample; n counts
\* its Percent calls.
NewCpuStats == [has |-> FALSE, last |-> 0, time |-> 0, n |-> 0]

\* stats.CpuStats.Percent(sample) at time now: the ticks since the last
\* sample over the time elapsed since it, as a percentage, and 0 for the
\* first sample; the accumulator then holds (sample, now).
Percent(acc, sample, now) ==
    [pct |-> IF acc.has THEN ((sample - acc.last) * 100) \div (now - acc.time)
             ELSE 0,
     acc |-> [has |-> TRUE, last |-> sample, time |-> now, n |-> acc.n + 1]]

NoCs == [SystemMode |-> 0, UserMode |-> 0, Percent |-> 0, TotalTicks |-> 0]
NoSample == [system |-> 0, user |-> 0, total |-> 0, t |-> 0]

\* A handle has just been built by Start or Open: fresh accumulators, a
\* running container whose counters stand anywhere.
StatsInit ==
    /\ container = [state |-> "absent", initPid |-> 0, lastPid |-> 0]
    /\ handle = [h \in Handles |-> NoHandle]
    /\ mon = [h \in Handles |-> NoMon]
    /\ waitCh = [h \in Handles |-> NewChan]
    /\ doneCh = [h \in Handles |-> NewChan]
    /\ kill = [h \in Handles |-> IdleKill]
    /\ destroyLog = {}
    /\ crashed = FALSE
    /\ opened = "none"
    /\ prov = NoProv
    /\ vol = NoVol
    /\ parse = NoParse
    /\ \E system \in 0..1, user \in 0..1, total \in 0..1 :
          stats = [pc |-> "live", state |-> "running",
                   cpu |-> [system |-> system, user |-> user,
                            total |-> total],
                   clock |-> 0,
                   systemCpuStats |-> NewCpuStats,
                   userCpuStats |-> NewCpuStats,
                   totalCpuStats |-> NewCpuStats,
                   nCalls |-> 0, nData |-> 0, at |-> "none",
                   ret |-> "none", err |-> "none",
                   cs |-> NoCs, sample |-> NoSample, prev |-> NoSample]

\* The container runs for a while: its counters and the clock advance.
Run ==
    /\ stats.pc = "live"
    /\ stats.state = "running"
    /\ \E ds \in 0..1, du \in 0..1, dt \in 0..1, e \in 1..MaxElapse :
          /\ ds + du + dt > 0
          /\ stats.cpu.system + ds <= MaxTicks
          /\ stats.cpu.user + du <= MaxTicks
          /\ stats.cpu.total + dt <= MaxTicks
          /\ stats' = [stats EXCEPT !.cpu.system = @ + ds, !.cpu.user = @ + du,
                                    !.cpu.total = @ + dt, !.clock = @ + e]
    /\ UNCHANGED <<container, handle, mon, waitCh, doneCh, kill, destroyLog,
                   crashed, opened, prov, vol, parse>>

\* The container stops (its init exits or Kill shuts it down), and the
\* monitor's teardown destroys it.
ContainerStops ==
    /\ stats.pc = "live"
    /\ stats.state = "running"
    /\ stats' = [stats EXCEPT !.state = "stopped"]
    /\ UNCHANGED <<container, handle, mon, waitCh, doneCh, kill, destroyLog,
                   crashed, opened, prov, vol, parse>>
ContainerDestroyed ==
    /\ stats.pc = "live"
    /\ stats.state = "stopped"
    /\ stats' = [stats EXCEPT !.state = "gone"]
    /\ UNCHANGED <<container, handle, mon, waitCh, doneCh, kill, destroyLog,
                   crashed, opened, prov, vol, parse>>

\* Mutant of Stats: a failure of CPUTime is not checked, and the snapshot
\* is built with a total of 0.
Stats_PartialSnapshot(cpuStatsErr, cpuTimeErr) ==
    /\ stats.pc = "live"
    /\ stats.nCalls < MaxCalls
    /\ stats.state # "running" => cpuStatsErr
    /\ IF cpuStatsErr
       THEN stats' = [stats EXCEPT !.nCalls = @ + 1, !.at = stats.state, !.ret = "nodata",
                                   !.err = "nil", !.cs = NoCs]
       ELSE LET total == IF cpuTimeErr THEN 0 ELSE stats.cpu.total
                s1 == Percent(stats.systemCpuStats, stats.cpu.system,
                              stats.clock + 2)
                s2 == Percent(s1.acc, stats.cpu.user, stats.clock + 3)
                s3 == Percent(stats.totalCpuStats, total, stats.clock + 4)
            IN stats' = [stats EXCEPT
                   !.nCalls = @ + 1, !.at = stats.state, !.nData = @ + 1,
                   !.ret = "data", !.err = "nil",
                   !.clock = @ + 4,
                   !.systemCpuStats = s2.acc,
                   !.totalCpuStats = s3.acc,
                   !.cs = [SystemMode |-> s1.pct, UserMode |-> s2.pct,
                           Percent |-> s3.pct,
                           TotalTicks |-> stats.cpu.user + stats.cpu.system],
                   !.prev = stats.sample,
                   !.sample = [system |-> stats.cpu.system,
                               user |-> stats.cpu.user,
                               total |-> total, t |-> stats.clock + 1]]
    /\ UNCHANGED <<container, handle, mon, waitCh, doneCh, kill, destroyLog,
                   crashed, opened, prov, vol, parse>>

\* h.Stats(): container.CPUStats() and container.CPUTime() are read, and a
\* failure of either returns nil, nil.  Otherwise t := time.Now(), and the
\* CpuStats literal calls h.systemCpuStats.Percent(system), then
\* h.systemCpuStats.Percent(user), then h.totalCpuStats.Percent(total), each
\* of which reads the clock; the usage is returned with a nil error.  The
\* cgroup of a container that is not running cannot be read.
Stats(cpuStatsErr, cpuTimeErr) ==
    /\ stats.pc = "live"
    /\ stats.nCalls < MaxCalls
    /\ stats.state # "running" => cpuStatsErr
    /\ IF cpuStatsErr \/ cpuTimeErr
       THEN stats' = [stats EXCEPT !.nCalls = @ + 1, !.at = stats.state, !.ret = "nodata",
                                   !.err = "nil", !.cs = NoCs]
       ELSE LET s1 == Percent(stats.systemCpuStats, stats.cpu.system,
                              stats.clock + 2)
                s2 == Percent(s1.acc, stats.cpu.user, stats.clock + 3)
                s3 == Percent(stats.totalCpuStats, stats.cpu.total,
                              stats.clock + 4)
            IN stats' = [stats EXCEPT
                   !.nCalls = @ + 1, !.at = stats.state, !.nData = @ + 1,
                   !.ret = "data", !.err = "nil",
                   !.clock = @ + 4,
                   !.systemCpuStats = s2.acc,
                   !.totalCpuStats = s3.acc,
                   !.cs = [SystemMode |-> s1.pct, UserMode |-> s2.pct,
                           Percent |-> s3.pct,
                           TotalTicks |-> stats.cpu.user + stats.cpu.system],
                   !.prev = stats.sample,
                   !.sample = [system |-> stats.cpu.system,
                               user |-> stats.cpu.user,
                               total |-> stats.cpu.total,
                               t |-> stats.clock + 1]]
    /\ UNCHANGED <<container, handle, mon, waitCh, doneCh, kill, destroyLog,
                   crashed, opened, prov, vol, parse>>

StatsNext ==
    \/ Run
    \/ ContainerStops
    \/ ContainerDestroyed
    \/ \E cpuStatsErr \in BOOLEAN, cpuTimeErr \in BOOLEAN :
          Stats(cpuStatsErr, cpuTimeErr)

StatsSpec == StatsInit /\ [][StatsNext]_vars

----------------------------------------------------------------------------
\* Properties.

\* The monitor of h is running: spawned and not yet returned.
Monitored(h) == mon[h].pc \in {"select", "cleanup", "close"}
\* Kill has been invoked on h.
KillInvoked(h) == kill[h].pc # "idle" \/ kill[h].ret # "none"
\* The latest Kill call on h has ended (returned or panicked).
KillEnded(h) == kill[h].pc = "idle" /\ kill[h].ret # "none"

\* C1: on every handle, however Kill calls and the detection of the
\* process's death interleave, at most one WaitResult is ever sent on
\* waitCh, the channel is closed at most once, it is closed only after that
\* one send, and a monitor that has ended has closed it.
C1_WaitChExactlyOnce ==
    \A h \in Handles :
        /\ waitCh[h].nSent <= 1
        /\ waitCh[h].nClosed <= 1
        /\ waitCh[h].closed => waitCh[h].nSent = 1
        /\ mon[h].pc = "done" => waitCh[h].closed /\ waitCh[h].nClosed = 1

\* C1 witness: a handle made by Open on which Kill returned and whose
\* monitor, having detected the death by its probe, has sent and closed.
C1_Witness ==
    \E h \in Handles :
        /\ handle[h].origin = "Open"
        /\ kill[h].returned
        /\ mon[h].trigger = "probe"
        /\ waitCh[h].closed

\* C2 (as claimed): a Kill call made after an earlier Kill call on the same
\* handle has returned ends as a no-op: it returns nil, does not panic,
\* attempts no Shutdown or Stop and does not close doneCh again.
C2_KillIdempotent ==
    \A h \in Handles :
        (kill[h].repeat /\ KillEnded(h)) =>
            /\ kill[h].ret = "nil"
            /\ kill[h].shut = "none" /\ kill[h].stop = "none"
            /\ doneCh[h].nClosed = 1
            /\ ~crashed

\* C3: Destroy is called on a handle's container by cleanupContainer, the
\* monitor's teardown, alone: never by Kill; and a container that has gone
\* while handles exist was destroyed by the teardown of one of them.
C3_DestroyOnlyByMonitor ==
    /\ destroyLog \subseteq {"cleanupContainer"}
    /\ (~Defined /\ \E h \in Handles : Exists(h)) =>
           \E h \in Handles : mon[h].cleaned

\* C3 witness: Kill has returned on a handle and the container has been
\* destroyed, by the monitor's teardown.
C3_Witness ==
    /\ ~Defined
    /\ "cleanupContainer" \in destroyLog
    /\ \E h \in Handles : kill[h].returned /\ kill[h].running

C5_CloseAfterTeardown ==
    \A h \in Handles :
        waitCh[h].closed => mon[h].cleaned /\ mon[h].pc = "done"

\* C5 witness: waitCh is closed although Destroy failed: the container is
\* still defined.
C5_Witness ==
    \E h \in Handles : waitCh[h].closed /\ Defined /\ mon[h].trigger = "kill"

\* The scheduler runs every goroutine that can take a step: the monitors
\* and the Kill calls in progress.
FairSpec ==
    /\ Spec
    /\ \A h \in Handles :
           /\ WF_vars(KillFinish(h))
           /\ WF_vars(runTimer(h) /\ ~Alive(h))
           /\ WF_vars(runDoneCh(h))
           /\ WF_vars(cleanupContainer(h))
           /\ WF_vars(runClose(h))

\* C6 (as claimed): once Kill has been invoked on a handle, its waitCh is
\* eventually closed, whatever Shutdown, Stop, Wait and Destroy return.
C6_KillLeadsToClose ==
    \A h \in Handles : KillInvoked(h) ~> waitCh[h].closed

\* C7 (as claimed): the monitor does not begin the teardown of a handle
\* while a Kill call on it is still shutting the container down and has
\* not yet closed doneCh.
C7_NoTeardownDuringKill ==
    [][\A h \in Handles :
          (kill[h].pc = "shutdown" /\ ~doneCh[h].closed) =>
              mon'[h].cleaned = mon[h].cleaned]_vars

\* C7 (amended): the teardown that Kill's signal triggers comes after the
\* signal: the monitor leaves through the doneCh case only when a Kill call
\* on that handle has ended its Shutdown and Stop attempts, returned and so
\* closed doneCh.
C7_SignalBeforeKillTeardown ==
    \A h \in Handles :
        mon[h].trigger = "kill" => doneCh[h].closed /\ kill[h].returned

\* C7 witness: a Kill call that shut a running container down has returned
\* and the monitor, woken by doneCh, has torn the container down.
C7_Witness ==
    \E h \in Handles :
        /\ mon[h].trigger = "kill"
        /\ mon[h].cleaned
        /\ kill[h].running /\ kill[h].ret = "nil"

\* C8 (as claimed): at most one handle with a running monitor exists for
\* the container name.
C8_OneLiveHandle ==
    Cardinality({h \in Handles : Monitored(h)}) <= 1

\* C9 (as claimed): a Kill call that finds the container not running
\* returns nil, attempts neither Shutdown nor Stop and raises nothing, and
\* the teardown of the handle is left to its monitor.
C9_KillNotRunning ==
    \A h \in Handles :
        (KillEnded(h) /\ ~kill[h].running) =>
            /\ kill[h].ret = "nil"
            /\ kill[h].shut = "none" /\ kill[h].stop = "none"
            /\ "Kill" \notin destroyLog

\* C10 (as claimed): a Kill call that finds the container running attempts
\* Shutdown, calls Stop exactly when Shutdown failed, returns an error
\* exactly when Stop failed too, and returns nil in every other case.
C10_KillReturnValue ==
    \A h \in Handles :
        (KillEnded(h) /\ kill[h].running) =>
            /\ kill[h].shut \in {"ok", "fail"}
            /\ (kill[h].stop # "none") <=> (kill[h].shut = "fail")
            /\ kill[h].ret = IF kill[h].shut = "fail" /\ kill[h].stop = "fail"
                             THEN "err" ELSE "nil"

\* C17: an Open call whose container is not among the containers defined
\* at the token's path returns "container not found", builds no handle,
\* spawns no monitor and creates or destroys nothing; an Open call that
\* finds the container returns one new handle and spawns one fresh monitor
\* for it, leaving every other handle and monitor as it was.
C17_OpenLookup ==
    [][\A g \in Handles :
          (Open(g) \/ \E t \in TaskTimeouts : OpenPersisted(t)) =>
              IF Defined
              THEN /\ opened' = "ok"
                   /\ \E s \in Handles :
                         /\ ~Exists(s)
                         /\ handle'[s].origin = "Open"
                         /\ mon'[s] = [NoMon EXCEPT !.pc = "select"]
                         /\ \A h \in Handles \ {s} :
                               handle'[h] = handle[h] /\ mon'[h] = mon[h]
                   /\ UNCHANGED <<container, destroyLog>>
              ELSE /\ opened' = "notfound"
                   /\ UNCHANGED <<container, handle, mon, waitCh, doneCh,
                                  destroyLog>>]_vars

\* C17 witness: Open has just failed to find the container, after an
\* earlier Open had found it and returned a handle.
C17_Witness ==
    /\ opened = "notfound"
    /\ ~Defined
    /\ \E h \in Handles : handle[h].origin = "Open" /\ mon[h].pc # "none"

\* C18 (as claimed): the handle s that Open(g.ID()) returns while the
\* container still exists has the ID of g: container name, init pid and
\* kill timeout as persisted in the token.
C18_IDRoundTrip ==
    [][\A g \in Handles, s \in Handles :
          (Open(g) /\ Defined /\ s = NewSlot) => ID(s)' = ID(g)]_vars

\* C19 (as claimed): after Update with a task that requests timeout t, the
\* handle's kill timeout is t clamped to the handle's maxKillTimeout,
\* whatever the kill timeout was before.
C19_UpdateClamps ==
    [][\A h \in Handles, t \in TaskTimeouts :
          Update(h, t) =>
              handle'[h].killTimeout =
                  GetKillTimeout(t, handle[h].maxKillTimeout)]_vars

\* A volume spec "h:c": exactly one ':', with a non-empty h before it and
\* a non-empty c after it.
WellShaped(volStr) ==
    /\ Cardinality({i \in 1..Len(volStr) : volStr[i] = ":"}) = 1
    /\ volStr[1] # ":"
    /\ volStr[Len(volStr)] # ":"
\* The container-side path of a well-shaped spec is absolute.
AbsoluteTarget(volStr) ==
    \E i \in 1..(Len(volStr) - 1) : volStr[i] = ":" /\ volStr[i + 1] = "/"
\* The specs that must be rejected, and the first of them in a list.
BadVolume(volStr) == ~WellShaped(volStr) \/ AbsoluteTarget(volStr)
BadVolumes(volumes) == {i \in 1..Len(volumes) : BadVolume(volumes[i])}

\* C20: validateVolumesConfig returns nil exactly for the lists in which
\* every spec is "h:c" with non-empty h and c and c not absolute; otherwise
\* it stops at the first spec that is not, with the absolute-mount error
\* when that spec is well shaped and the invalid-entry error when it is not.
C20_VolumePolicy ==
    vol.pc = "returned" =>
        LET bad == BadVolumes(vol.volumes)
        IN IF bad = {}
           THEN vol.err = "nil" /\ vol.i = Len(vol.volumes) + 1
           ELSE /\ vol.i \in bad /\ \A j \in bad : vol.i <= j
                /\ vol.err =
                     IF WellShaped(vol.volumes[vol.i])
                     THEN "unsupported absolute container mount point"
                     ELSE "invalid volume bind mount entry"

\* C20 witness: a list whose first spec is accepted and whose second spec
\* has an absolute container path has been rejected at the second spec.
C20_Witness ==
    /\ vol.pc = "returned"
    /\ Len(vol.volumes) = 2
    /\ vol.i = 2
    /\ vol.err = "unsupported absolute container mount point"

\* The place of effect e in the order of commits; 0 when never committed.
CommitPos(e) ==
    IF e \in Range(prov.commits)
    THEN CHOOSE k \in 1..Len(prov.commits) : prov.commits[k] = e
    ELSE 0
\* Start has returned an error, or is about to.
RolledBack == prov.pc \in {"cleaned", "returned"} /\ prov.failedAt # "none"
\* Some volume spec of the task has an absolute host-side path.
AbsoluteSource ==
    \E i \in 1..Len(prov.volumes) :
        HasPrefix(Split(prov.volumes[i], ":")[1], <<"/">>)

\* C11 (as claimed): the undo operations of a rollback run in reverse order
\* of the commits: of two effects that are undone, the one committed later
\* is undone first.
C11_RollbackLIFO ==
    RolledBack =>
        \A i \in 1..Len(prov.undone), j \in 1..Len(prov.undone) :
            i < j => CommitPos(Undoes(prov.undone[i])) >
                     CommitPos(Undoes(prov.undone[j]))

\* C12 (as claimed): after a Start that returned an error and whose undo
\* operations all succeeded, nothing that this Start created is left:
\* no container, running process, snapshot, config file or directory.
C12_RollbackComplete ==
    (prov.pc = "returned" /\ prov.ret = "err" /\ ~prov.undoFailed) =>
        prov.effects = {}

\* C13 (as claimed): when the volume group cannot be parsed from the base
\* volume reference, Start returns an error and its rollback removes the
\* snapshot that lvcreate made.
C13_ParseFailureRemovesSnapshot ==
    (prov.pc = "returned" /\ prov.failedAt = "extractVgName") =>
        /\ prov.ret = "err"
        /\ "lvremove" \in Range(prov.undone)
        /\ "lv" \notin prov.effects

\* C14: Start calls the closure returned with an error exactly once before
\* it returns that error, and calls no closure when provisioning succeeded
\* or is still under way.
C14_CleanupExactlyOnce ==
    /\ prov.pc \in {"run", "failed", "succeeded"} => prov.nCleanup = 0
    /\ prov.pc = "cleaned" => prov.nCleanup = 1
    /\ prov.pc = "returned" =>
           /\ prov.ret = "err" => prov.nCleanup = 1
           /\ prov.ret = "ok" => prov.nCleanup = 0 /\ prov.undone = <<>>

\* C14 witness: Start has returned the error of a failed resource limit
\* after its one call of stopAndRemoveConfigCleanup.
C14_Witness ==
    /\ prov.pc = "returned"
    /\ prov.ret = "err"
    /\ prov.cleanup = "stopAndRemoveConfigCleanup"
    /\ prov.nCleanup = 1
    /\ Len(prov.undone) = 3

\* C15 (as claimed): Start in clone mode with a base_rootfs_path without
\* the "lvm:" prefix returns an error and has committed nothing: no
\* snapshot, no directory, no config file.
C15_UnsupportedBackend ==
    (prov.pc = "returned" /\ prov.mode = "clone"
       /\ ~HasPrefix(prov.base, LvmPrefix)) =>
        /\ prov.ret = "err"
        /\ prov.commits = <<>>

\* C16 (as claimed): with a volume whose host-side path is absolute and
\* the volumes option false, Start never succeeds, and the rejection by
\* setCommonContainerConfig comes before anything has been committed.
C16_VolumeGateNoEffects ==
    (prov.pc = "returned" /\ AbsoluteSource /\ ~prov.gate) =>
        /\ prov.ret # "ok"
        /\ prov.failedAt = "setCommon" => prov.commits = <<>>

\* C21 (as claimed): a list that validateVolumesConfig rejects at one of
\* its specs, for its shape or for an absolute container path, is rejected
\* by the provisioning-time resolution too, which hands no bind mount for
\* that spec to the container.
C21_StaticDynamicAgree ==
    (vol.pc = "resolved" /\ vol.err # "nil") =>
        /\ vol.dyn # "nil"
        /\ Len(vol.emitted) < vol.i

\* C22 (as claimed): for a reference to logical volume lv of volume group
\* vg in any of the three forms, the device-mapper form being built by
\* writing every '-' of vg and of lv as '--' and joining the two with '-',
\* extractVgName returns vg itself, unescaped, and no error.
C22_VgRoundTrip ==
    parse.pc = "returned" =>
        parse.err = "nil" /\ parse.vgName = parse.vg

\* C23: Start returns a handle exactly when every step of its strategy
\* has succeeded (the container created or cloned, the common configuration
\* applied, the container started, the memory limit and the CPU shares
\* set), and then the monitor of that handle has been spawned; when Start
\* returns an error it returns no handle and no monitor has been spawned.
C23_HandleIffProvisioned ==
    prov.pc = "returned" =>
        /\ prov.sresp = "handle" <=>
               Range(Steps(prov.mode)) \ {"handle"} \subseteq StepsDone(prov)
        /\ prov.sresp = "handle" => prov.ret = "ok" /\ prov.monitor
        /\ prov.ret = "err" => prov.sresp = "nil" /\ ~prov.monitor

\* C23 witness: Start has returned an error after the container had been
\* started and a resource limit could not be set.
C23_Witness ==
    /\ prov.pc = "returned"
    /\ prov.ret = "err"
    /\ prov.failedAt = "SetCgroupItem"
    /\ "Start" \in StepsDone(prov)

\* C24 (as claimed): the first Stats call on a handle that returns data
\* reports 0 for the system-mode, the user-mode and the total percentage;
\* the second one, when all three counters have risen since the first,
\* reports three positive percentages, none above what the largest rise
\* over the shortest time gives.
C24_FirstSampleZero ==
    /\ (stats.ret = "data" /\ stats.nData = 1) =>
           /\ stats.cs.SystemMode = 0
           /\ stats.cs.UserMode = 0
           /\ stats.cs.Percent = 0
    /\ (/\ stats.ret = "data" /\ stats.nData = 2
        /\ stats.sample.system > stats.prev.system
        /\ stats.sample.user > stats.prev.user
        /\ stats.sample.total > stats.prev.total) =>
           \A pct \in {stats.cs.SystemMode, stats.cs.UserMode,
                       stats.cs.Percent} :
               pct > 0 /\ pct <= 100 * MaxTicks

\* C25: Stats can be called whatever has become of the container, and never
\* returns an error; a call in which CPUStats or CPUTime fails returns no
\* data, builds no snapshot and leaves the three accumulators as they were.
C25_NoDataOnReadFailure ==
    [][\A cpuStatsErr \in BOOLEAN, cpuTimeErr \in BOOLEAN :
          Stats(cpuStatsErr, cpuTimeErr) =>
              /\ stats'.err = "nil"
              /\ (cpuStatsErr \/ cpuTimeErr) =>
                     /\ stats'.ret = "nodata"
                     /\ stats'.cs = NoCs
                     /\ stats'.nData = stats.nData
                     /\ stats'.systemCpuStats = stats.systemCpuStats
                     /\ stats'.userCpuStats = stats.userCpuStats
                     /\ stats'.totalCpuStats = stats.totalCpuStats]_vars

\* C25 witness: after a call that returned data, the container has been
\* destroyed and a call made then has returned no data and no error.
C25_Witness ==
    /\ stats.at = "gone"
    /\ stats.nData > 0
    /\ stats.ret = "nodata"
    /\ stats.err = "nil"

\* C30 (as claimed): after every Stats call that returned data, each of the
\* three accumulators has been updated once per such call and holds the
\* latest sample of its own counter: system, user and total.
C30_IndependentAccumulators ==
    stats.nData > 0 =>
        /\ stats.systemCpuStats.n = stats.nData
        /\ stats.userCpuStats.n = stats.nData
        /\ stats.totalCpuStats.n = stats.nData
        /\ stats.systemCpuStats.last = stats.sample.system
        /\ stats.userCpuStats.last = stats.sample.user
        /\ stats.totalCpuStats.last = stats.sample.total

\* C26: a Kill call closes doneCh exactly once when it returns, by
\* whichever path: the container was not running, Shutdown succeeded, Stop
\* succeeded after Shutdown had failed, or Stop failed and an error is
\* returned.  Until the call returns it has not closed the channel, and
\* nothing closes doneCh before Kill is called.
C26_KillClosesOnce ==
    \A h \in Handles :
        /\ (KillEnded(h) /\ kill[h].ret \in {"nil", "err"}) =>
               doneCh[h].closed /\ doneCh[h].nClosed = 1
        /\ kill[h].pc = "shutdown" =>
               doneCh[h].nClosed = IF kill[h].returned THEN 1 ELSE 0
        /\ ~KillInvoked(h) => doneCh[h].nClosed = 0

\* C26 witness: Kill has returned the error of a failed Stop and has closed
\* doneCh, once.
C26_Witness ==
    \E h \in Handles :
        /\ KillEnded(h)
        /\ kill[h].ret = "err"
        /\ kill[h].stop = "fail"
        /\ doneCh[h].closed
        /\ doneCh[h].nClosed = 1

\* C27: the monitor sends a result on waitCh only in three cases: on a
\* tick when the lookup of the init process fails (the result carries the
\* error), on a tick when the probe with signal 0 fails (an empty result),
\* and when doneCh has been closed (an empty result); on a tick that finds
\* the process alive it sends nothing and stays in its loop.
C27_PublishTriggers ==
    [][\A h \in Handles :
          /\ waitCh'[h].nSent # waitCh[h].nSent =>
                 /\ mon[h].pc = "select"
                 /\ waitCh'[h].buf = Append(waitCh[h].buf,
                        IF mon'[h].trigger = "lookup" THEN "err" ELSE "ok")
                 /\ \/ mon'[h].trigger \in {"lookup", "probe"} /\ ~Alive(h)
                    \/ mon'[h].trigger = "kill" /\ doneCh[h].closed
          /\ (runTimer(h) /\ Alive(h)) =>
                 /\ waitCh'[h] = waitCh[h]
                 /\ mon'[h] = mon[h]
                 /\ mon'[h].pc = "select"]_vars

\* C27 witness: the monitor has published the error of a failed lookup.
C27_Witness ==
    \E h \in Handles :
        /\ mon[h].trigger = "lookup"
        /\ waitCh[h].buf = <<"err">>
        /\ ~doneCh[h].closed

\* C28: the monitor's teardown calls Destroy whether its wait for the
\* container to stop succeeded or timed out (the container was still
\* running), and publishes nothing: the teardown and the close that follows
\* leave the result sent on waitCh as it was, and waitCh is closed whether
\* Destroy succeeded or failed.
C28_TeardownAbsorbed ==
    [][\A h \in Handles :
          /\ cleanupContainer(h) =>
                 /\ "cleanupContainer" \in destroyLog'
                 /\ mon'[h].pc = "close"
                 /\ waitCh'[h] = waitCh[h]
          /\ runClose(h) =>
                 /\ waitCh'[h].closed
                 /\ waitCh'[h].buf = waitCh[h].buf
                 /\ waitCh'[h].nSent = waitCh[h].nSent]_vars

\* C28 witness: the monitor has ended and closed waitCh, with the empty
\* result still in it, while the container is still running: the wait had
\* timed out and Destroy had failed.
C28_Witness ==
    \E h \in Handles :
        /\ mon[h].pc = "done"
        /\ Running
        /\ waitCh[h].closed
        /\ waitCh[h].buf = <<"ok">>

\* C29 (as claimed): once the monitor of a clone-strategy container has
\* run its teardown and closed waitCh, the snapshot that Start's lvcreate
\* made no longer exists.
C29_TeardownReleasesSnapshot ==
    (prov.pc = "closed" /\ prov.mode = "clone") => "lv" \notin prov.effects

\* C31 (as claimed): an Update call on a handle whose Kill has closed
\* doneCh, or whose monitor has run its teardown, changes nothing: the kill
\* timeout of the handle, and so the token that ID returns, stay as they
\* were.
C31_UpdateAfterKill ==
    [][\A h \in Handles, t \in TaskTimeouts :
          (Update(h, t) /\ (doneCh[h].closed \/ mon[h].cleaned)) =>
              /\ handle'[h].killTimeout = handle[h].killTimeout
              /\ ID(h)' = ID(h)]_vars

\* C32 (as claimed): the kill timeout of every handle, built by Start or by
\* Open and after any Update calls, is at most the handle's maxKillTimeout,
\* the maximum the driver is configured with.
C32_KillTimeoutBounded ==
    \A h \in Handles :
        Exists(h) => handle[h].killTimeout <= handle[h].maxKillTimeout

\* C33 (as claimed): the monitor is never blocked at the send of its
\* result, because nothing has been sent on waitCh (capacity 1) while the
\* monitor is still in its loop, whether or not the orchestrator receives;
\* and once a trigger is there (doneCh is closed, or the init process is
\* gone), the teardown is reached and waitCh is closed.
C33_PublishNeverBlocks ==
    /\ [](\A h \in Handles :
             mon[h].pc = "select" =>
                 /\ waitCh[h].nSent = 0
                 /\ CanSend(waitCh[h]))
    /\ \A h \in Handles :
           (mon[h].pc = "select" /\ (doneCh[h].closed \/ ~Alive(h)))
               ~> (mon[h].cleaned /\ waitCh[h].closed)

\* C34 (as claimed): when setCommonContainerConfig returns without error,
\* the mount entries it has set on the container are the three standard
\* mounts (local, alloc, secrets) followed by the resolved custom volumes
\* in the order of the task's list, each entry set exactly once and each
\* with the options rw,bind,create=dir.
C34_MountsAssignedOnce ==
    (vol.pc = "resolved" /\ vol.dyn = "nil") =>
        /\ vol.assigned =
               StandardMounts \o
               [i \in 1..Len(vol.emitted) |->
                   MountEntry(vol.emitted[i][1], vol.emitted[i][2])]
        /\ \A i \in 1..Len(vol.assigned) :
               vol.assigned[i][4] = "rw,bind,create=dir"

====
